---- MODULE Spec2Model ----
(***************************************************************************)
(* Model of processDataSourceInChunks, delimiteByNewLine and removeNewLine *)
(* of src/main.go: a driver that pulls fixed-size reads from an io.Reader, *)
(* accumulates them, asks a delimiter function whether a record is         *)
(* complete and hands each record to a handler.                            *)
(*                                                                         *)
(* Bytes are integers.  An error value is one of the strings "nil",        *)
(* "EOF" (io.EOF), "ErrRead" (any other error of the reader) and           *)
(* "ErrHandler" (an error returned by the handler).                        *)
(***************************************************************************)
EXTENDS Integers, Sequences, FiniteSets, TLC

\* ------------------------------------------------------------------------
\* Bounds of the model
\* ------------------------------------------------------------------------
MaxLen == 4          \* longest stream held by the source
MaxChunk == 3        \* largest chunkSize argument
NegChunk == 2        \* chunkSize ranges down to -NegChunk
MaxEmptyReads == 1   \* reads that return (0, nil) on a non-empty buffer
MaxReads == MaxLen + MaxEmptyReads + 2   \* the read counter saturates here

\* ------------------------------------------------------------------------
\* Bytes
\* ------------------------------------------------------------------------
newLineByte == 10
zeroByte == 0        \* the value make([]byte, n) fills a slice with
StreamBytes == {newLineByte, 97, 98}

ChunkSizes == (0 - NegChunk)..MaxChunk

RECURSIVE SeqsUpTo(_)
SeqsUpTo(n) ==
    IF n = 0 THEN {<< >>}
    ELSE LET shorter == SeqsUpTo(n - 1)
         IN  shorter \cup {Append(s, b) : s \in {t \in shorter : Len(t) = n - 1},
                                          b \in StreamBytes}

Streams == SeqsUpTo(MaxLen)

Min(a, b) == IF a < b THEN a ELSE b

\* make([]byte, n): n zero bytes
Zeros(n) == [i \in 1..n |-> zeroByte]

\* ------------------------------------------------------------------------
\* Pure functions
\* ------------------------------------------------------------------------

\* bytes.Split(s, []byte{newLineByte}): the segments between the separators,
\* one more segment than there are separators.
RECURSIVE Split(_)
Split(s) ==
    IF \A i \in 1..Len(s) : s[i] # newLineByte
    THEN << s >>
    ELSE LET first == CHOOSE i \in 1..Len(s) :
                         /\ s[i] = newLineByte
                         /\ \A j \in 1..(i - 1) : s[j] # newLineByte
         IN  << SubSeq(s, 1, first - 1) >> \o Split(SubSeq(s, first + 1, Len(s)))

\* JoinLeftOver without lines 192-194: an empty part is not skipped
RECURSIVE JoinLeftOverKeepsEmpty(_, _)
JoinLeftOverKeepsEmpty(leftOverParts, i) ==
    IF i > Len(leftOverParts) THEN << >>
    ELSE leftOverParts[i]
         \o (IF i < Len(leftOverParts) THEN << newLineByte >> ELSE << >>)
         \o JoinLeftOverKeepsEmpty(leftOverParts, i + 1)

\* the loop of delimiteByNewLine over leftOverParts, from index i on
RECURSIVE JoinLeftOver(_, _)
JoinLeftOver(leftOverParts, i) ==
    IF i > Len(leftOverParts) THEN << >>
    ELSE (IF Len(leftOverParts[i]) = 0
          THEN << >>
          ELSE leftOverParts[i] \o
               (IF i < Len(leftOverParts) THEN << newLineByte >> ELSE << >>))
         \o JoinLeftOver(leftOverParts, i + 1)

\* delimiteByNewLine with line 175 as len(parts) > 0
delimiteByNewLineAlwaysReady(chunk) ==
    LET parts == Split(chunk)
    IN  IF Len(parts) > 0
        THEN [ready |-> TRUE, chunk |-> parts[1],
              leftOver |-> JoinLeftOver(Tail(parts), 1)]
        ELSE [ready |-> FALSE, chunk |-> chunk, leftOver |-> << >>]

\* delimiteByNewLine handing back the bytes after the first new line as they
\* were given, instead of the loop of lines 189-203
delimiteByNewLineVerbatimTail(chunk) ==
    LET parts == Split(chunk)
    IN  IF Len(parts) > 1
        THEN [ready |-> TRUE, chunk |-> parts[1],
              leftOver |-> SubSeq(chunk, Len(parts[1]) + 2, Len(chunk))]
        ELSE [ready |-> FALSE, chunk |-> chunk, leftOver |-> << >>]

delimiteByNewLine(chunk) ==
    LET parts == Split(chunk)
    IN  IF Len(parts) > 1
        THEN [ready |-> TRUE, chunk |-> parts[1],
              leftOver |-> JoinLeftOver(Tail(parts), 1)]
        ELSE [ready |-> FALSE, chunk |-> chunk, leftOver |-> << >>]

removeNewLine(b) == SelectSeq(b, LAMBDA x : x # newLineByte)

\* ------------------------------------------------------------------------
\* State
\* ------------------------------------------------------------------------
VARIABLES
    stream,             \* the whole content of dataSource
    pos,                \* number of bytes the source has handed out
    chunkSize,          \* argument
    leftOver,           \* local, line 92
    eof,                \* local, line 93
    err,                \* local, line 96
    enoughDataInChunkToBeProcessed,   \* local, line 97
    chunkToBeProcessed, \* local, line 98
    tempChunk,          \* local, line 104
    pc,                 \* position in processDataSourceInChunks
    ret,                \* value returned by processDataSourceInChunks
    delivered,          \* history: the arguments of the handler calls, in order
    reads,              \* history: number of dataSource.Read calls (saturating)
    emptyReads,         \* history: number of (0, nil) reads on a non-empty buffer
    failure             \* history: the non-EOF error the reader or handler produced

vars == << stream, pos, chunkSize, leftOver, eof, err,
           enoughDataInChunkToBeProcessed, chunkToBeProcessed, tempChunk,
           pc, ret, delivered, reads, emptyReads, failure >>

locals == << leftOver, eof, err, enoughDataInChunkToBeProcessed,
             chunkToBeProcessed, tempChunk >>

history == << delivered, reads, emptyReads, failure >>

Init ==
    /\ stream \in Streams
    /\ chunkSize \in ChunkSizes
    /\ pos = 0
    /\ leftOver = << >>
    /\ eof = FALSE
    /\ err = "nil"
    /\ enoughDataInChunkToBeProcessed = FALSE
    /\ chunkToBeProcessed = << >>
    /\ tempChunk = << >>
    /\ pc = "outer"
    /\ ret = "none"
    /\ delivered = << >>
    /\ reads = 0
    /\ emptyReads = 0
    /\ failure = "nil"

\* ------------------------------------------------------------------------
\* The byte stream source
\* ------------------------------------------------------------------------

\* The results (n, err) a Read into a buffer of len bytes may produce when
\* the source has handed out p bytes so far.
ReadResults(len, p) ==
    LET rem == Len(stream) - p
    IN  {[n |-> k, err |-> "nil"] : k \in 1..Min(len, rem)}
        \cup (IF rem >= 1 /\ rem <= len THEN {[n |-> rem, err |-> "EOF"]} ELSE {})
        \cup (IF rem = 0 THEN {[n |-> 0, err |-> "EOF"]} ELSE {})
        \cup (IF len = 0 \/ emptyReads < MaxEmptyReads
              THEN {[n |-> 0, err |-> "nil"]} ELSE {})
        \cup {[n |-> 0, err |-> "ErrRead"]}

\* ------------------------------------------------------------------------
\* processDataSourceInChunks
\* ------------------------------------------------------------------------

\* lines 96-98, head of the outer loop
OuterHead ==
    /\ pc = "outer"
    /\ chunkSize + 1 >= 0
    /\ err' = "nil"
    /\ enoughDataInChunkToBeProcessed' = FALSE
    /\ chunkToBeProcessed' = << >>
    /\ pc' = "inner"
    /\ UNCHANGED << stream, pos, chunkSize, leftOver, eof, tempChunk, ret, history >>

\* lines 98 and 104: make with a negative capacity or length panics
MakeSlicePanic ==
    /\ \/ pc = "outer" /\ chunkSize + 1 < 0
       \/ pc = "inner" /\ chunkSize < 0
    /\ pc' = "panic"
    /\ UNCHANGED << stream, pos, chunkSize, locals, ret, history >>

\* lines 104-112, the left over of the previous iteration is taken first
SeedFromLeftOver ==
    /\ pc = "inner"
    /\ chunkSize >= 0
    /\ Len(leftOver) > 0
    /\ tempChunk' = leftOver
    /\ leftOver' = << >>
    /\ pc' = "check"
    /\ UNCHANGED << stream, pos, chunkSize, eof, err,
                    enoughDataInChunkToBeProcessed, chunkToBeProcessed, ret, history >>

\* ReadSource without the test of line 110: the source is read although
\* leftOver holds bytes
ReadSourceIgnoresLeftOver ==
    /\ pc = "inner"
    /\ chunkSize >= 0
    /\ \E r \in ReadResults(chunkSize, pos) :
          /\ tempChunk' = SubSeq(stream, pos + 1, pos + r.n) \o Zeros(chunkSize - r.n)
          /\ pos' = pos + r.n
          /\ err' = r.err
          /\ emptyReads' = IF r.n = 0 /\ r.err = "nil" /\ chunkSize > 0
                           THEN emptyReads + 1 ELSE emptyReads
          /\ failure' = IF r.err = "ErrRead" THEN r.err ELSE failure
    /\ reads' = Min(reads + 1, MaxReads)
    /\ pc' = "check"
    /\ UNCHANGED << stream, chunkSize, leftOver, eof,
                    enoughDataInChunkToBeProcessed, chunkToBeProcessed, ret, delivered >>

\* lines 104-116, the data source is read into a zeroed buffer of chunkSize bytes
ReadSource ==
    /\ pc = "inner"
    /\ chunkSize >= 0
    /\ Len(leftOver) = 0
    /\ \E r \in ReadResults(chunkSize, pos) :
          /\ tempChunk' = SubSeq(stream, pos + 1, pos + r.n) \o Zeros(chunkSize - r.n)
          /\ pos' = pos + r.n
          /\ err' = r.err
          /\ emptyReads' = IF r.n = 0 /\ r.err = "nil" /\ chunkSize > 0
                           THEN emptyReads + 1 ELSE emptyReads
          /\ failure' = IF r.err = "ErrRead" THEN r.err ELSE failure
    /\ reads' = Min(reads + 1, MaxReads)
    /\ pc' = "check"
    /\ UNCHANGED << stream, chunkSize, leftOver, eof,
                    enoughDataInChunkToBeProcessed, chunkToBeProcessed, ret, delivered >>

\* CheckReadErr with line 121 always true: every error ends the inner loop
\* as if it were io.EOF
CheckReadErrAllAsEOF ==
    /\ pc = "check"
    /\ IF err # "nil"
       THEN /\ eof' = TRUE
            /\ pc' = "handle"
            /\ ret' = ret
       ELSE /\ pc' = "append"
            /\ UNCHANGED << eof, ret >>
    /\ UNCHANGED << stream, pos, chunkSize, leftOver, err,
                    enoughDataInChunkToBeProcessed, chunkToBeProcessed, tempChunk,
                    history >>

\* CheckReadErr without lines 121-125: every error, io.EOF too, is returned
CheckReadErrReturnsEOF ==
    /\ pc = "check"
    /\ IF err # "nil"
       THEN /\ eof' = (err = "EOF")
            /\ pc' = "done"
            /\ ret' = err
       ELSE /\ pc' = "append"
            /\ UNCHANGED << eof, ret >>
    /\ UNCHANGED << stream, pos, chunkSize, leftOver, err,
                    enoughDataInChunkToBeProcessed, chunkToBeProcessed, tempChunk,
                    history >>

\* CheckReadErr returning nil at io.EOF when nothing is accumulated, instead
\* of the break of line 124
CheckReadErrSkipsEmptyFlush ==
    /\ pc = "check"
    /\ IF err # "nil"
       THEN /\ eof' = (err = "EOF")
            /\ IF err = "EOF"
               THEN IF chunkToBeProcessed = << >>
                    THEN pc' = "done" /\ ret' = "nil"
                    ELSE pc' = "handle" /\ ret' = ret
               ELSE pc' = "done" /\ ret' = err
       ELSE /\ pc' = "append"
            /\ UNCHANGED << eof, ret >>
    /\ UNCHANGED << stream, pos, chunkSize, leftOver, err,
                    enoughDataInChunkToBeProcessed, chunkToBeProcessed, tempChunk,
                    history >>

\* lines 119-128
CheckReadErr ==
    /\ pc = "check"
    /\ IF err # "nil"
       THEN /\ eof' = (err = "EOF")
            /\ IF err = "EOF"
               THEN pc' = "handle" /\ ret' = ret
               ELSE pc' = "done" /\ ret' = err
       ELSE /\ pc' = "append"
            /\ UNCHANGED << eof, ret >>
    /\ UNCHANGED << stream, pos, chunkSize, leftOver, err,
                    enoughDataInChunkToBeProcessed, chunkToBeProcessed, tempChunk,
                    history >>

\* AppendAndDelimit with the operands of append at line 130 exchanged
AppendAndDelimitPrepends ==
    /\ pc = "append"
    /\ LET d == delimiteByNewLine(tempChunk \o chunkToBeProcessed)
       IN  /\ enoughDataInChunkToBeProcessed' = d.ready
           /\ chunkToBeProcessed' = d.chunk
           /\ leftOver' = d.leftOver
           /\ pc' = IF d.ready THEN "handle" ELSE "inner"
    /\ UNCHANGED << stream, pos, chunkSize, eof, err, tempChunk, ret, history >>

\* lines 130-140
AppendAndDelimit ==
    /\ pc = "append"
    /\ LET d == delimiteByNewLine(chunkToBeProcessed \o tempChunk)
       IN  /\ enoughDataInChunkToBeProcessed' = d.ready
           /\ chunkToBeProcessed' = d.chunk
           /\ leftOver' = d.leftOver
           /\ pc' = IF d.ready THEN "handle" ELSE "inner"
    /\ UNCHANGED << stream, pos, chunkSize, eof, err, tempChunk, ret, history >>

\* CallHandler passing tempChunk instead of chunkWithoutNewLine at line 145
CallHandlerRawBuffer ==
    /\ pc = "handle"
    /\ delivered' = Append(delivered, tempChunk)
    /\ pc' = "handler"
    /\ UNCHANGED << stream, pos, chunkSize, locals, ret, reads, emptyReads, failure >>

\* lines 143-145, the handler is entered with the record
CallHandler ==
    /\ pc = "handle"
    /\ delivered' = Append(delivered, removeNewLine(chunkToBeProcessed))
    /\ pc' = "handler"
    /\ UNCHANGED << stream, pos, chunkSize, locals, ret, reads, emptyReads, failure >>

\* line 145, the handler returns nil or an error
HandlerReturn ==
    /\ pc = "handler"
    /\ \E e \in {"nil", "ErrHandler"} :
          /\ err' = e
          /\ failure' = IF e # "nil" THEN e ELSE failure
    /\ pc' = "after"
    /\ UNCHANGED << stream, pos, chunkSize, leftOver, eof,
                    enoughDataInChunkToBeProcessed, chunkToBeProcessed, tempChunk,
                    ret, delivered, reads, emptyReads >>

\* AfterHandler without lines 147-149: the error of the handler is dropped
AfterHandlerIgnoresError ==
    /\ pc = "after"
    /\ IF eof
       THEN pc' = "done" /\ ret' = "nil"
       ELSE pc' = "outer" /\ ret' = ret
    /\ UNCHANGED << stream, pos, chunkSize, locals, history >>

\* lines 147-156
AfterHandler ==
    /\ pc = "after"
    /\ IF err # "nil"
       THEN pc' = "done" /\ ret' = err
       ELSE IF eof
            THEN pc' = "done" /\ ret' = "nil"
            ELSE pc' = "outer" /\ ret' = ret
    /\ UNCHANGED << stream, pos, chunkSize, locals, history >>

Next ==
    \/ OuterHead
    \/ MakeSlicePanic
    \/ SeedFromLeftOver
    \/ ReadSource
    \/ CheckReadErr
    \/ AppendAndDelimit
    \/ CallHandler
    \/ HandlerReturn
    \/ AfterHandler

Spec == Init /\ [][Next]_vars

\* the driver runs whenever it can: it is the only thread, and the reader and
\* the handler return
FairSpec == Spec /\ WF_vars(Next)

\* ------------------------------------------------------------------------
\* delimiteByNewLine on its own: one call as at line 134, on every buffer of
\* at most MaxLen bytes.  tempChunk holds the argument, and the three
\* results are assigned as line 134 assigns them.
\* ------------------------------------------------------------------------
DelimInit ==
    /\ stream = << >>
    /\ chunkSize = MaxLen
    /\ pos = 0
    /\ leftOver = << >>
    /\ eof = FALSE
    /\ err = "nil"
    /\ enoughDataInChunkToBeProcessed = FALSE
    /\ chunkToBeProcessed = << >>
    /\ tempChunk \in Streams
    /\ pc = "delimiter"
    /\ ret = "none"
    /\ delivered = << >>
    /\ reads = 0
    /\ emptyReads = 0
    /\ failure = "nil"

\* line 134 with tempChunk as the argument
ApplyDelimiter ==
    /\ pc = "delimiter"
    /\ LET d == delimiteByNewLine(tempChunk)
       IN  /\ enoughDataInChunkToBeProcessed' = d.ready
           /\ chunkToBeProcessed' = d.chunk
           /\ leftOver' = d.leftOver
    /\ pc' = "delimited"
    /\ UNCHANGED << stream, pos, chunkSize, eof, err, tempChunk, ret, history >>

DelimNext == ApplyDelimiter

DelimSpec == DelimInit /\ [][DelimNext]_vars

TypeOK ==
    /\ pc \in {"outer", "inner", "check", "append", "handle", "handler", "after",
               "done", "panic"}
    /\ ret \in {"none", "nil", "EOF", "ErrRead", "ErrHandler"}
    /\ pos \in 0..Len(stream)
    /\ reads \in 0..MaxReads

\* ------------------------------------------------------------------------
\* Vocabulary of the properties
\* ------------------------------------------------------------------------
RECURSIVE Flatten(_)
Flatten(ss) == IF ss = << >> THEN << >> ELSE Head(ss) \o Flatten(Tail(ss))

IsPrefix(s, t) == Len(s) <= Len(t) /\ SubSeq(t, 1, Len(s)) = s

\* the bytes of a buffer that came from the source, without the zero bytes
\* of the read buffer (the streams of the model hold no zero byte)
SourceBytes(b) == SelectSeq(b, LAMBDA x : x # zeroByte)

\* a run with chunkSize > 0 that returned nil: no read error, no handler error
Succeeded == pc = "done" /\ ret = "nil" /\ chunkSize > 0

\* ------------------------------------------------------------------------
\* C1 .. C10
\* ------------------------------------------------------------------------

\* C1: chunk-boundary independence -- a successful run with chunkSize > 0
\* has delivered exactly the records obtained by splitting the whole stream
\* by the delimiter byte in one pass.
ChunkBoundaryIndependence == Succeeded => delivered = Split(stream)

\* C2: no data loss or duplication -- the concatenation of the records
\* delivered by a successful run equals the stream with every delimiter
\* byte removed.
NoLossNoDuplication == Succeeded => Flatten(delivered) = removeNewLine(stream)

\* C3: handler failure short-circuits -- once the handler has returned an
\* error, the next step returns that error, and no handler call and no read
\* happens any more, so the buffered bytes are never delivered.
HandlerFailureShortCircuits ==
    [][failure = "ErrHandler" =>
          /\ pc' = "done"
          /\ ret' = failure
          /\ delivered' = delivered
          /\ reads' = reads
          /\ pos' = pos]_vars

\* C3 witness: the handler failed on its second call while bytes of the
\* stream were still unread or held in the remainder buffer.
HandlerFailureWitness ==
    /\ pc = "done"
    /\ ret = "ErrHandler"
    /\ Len(delivered) = 2
    /\ leftOver # << >>
    /\ pos < Len(stream)

\* C4: read failure aborts -- once a read has returned an error other than
\* end-of-stream, the next step returns that error, and no handler call and
\* no read happens any more, so the accumulated bytes are discarded.
ReadFailureAborts ==
    [][failure = "ErrRead" =>
          /\ pc' = "done"
          /\ ret' = failure
          /\ delivered' = delivered
          /\ reads' = reads
          /\ pos' = pos]_vars

\* C4 witness: a read failed after a record was delivered and while bytes
\* were accumulated but not delivered.
ReadFailureWitness ==
    /\ pc = "done"
    /\ ret = "ErrRead"
    /\ Len(delivered) >= 1
    /\ chunkToBeProcessed # << >>

\* C5: ordered, strictly sequential delivery -- the source bytes handed to
\* the handler, taken in the order of the handler calls, are a prefix of the
\* non-delimiter bytes of the stream, and while a handler call is in progress
\* no other handler call starts and no read of the source happens.
OrderedSequentialDelivery ==
    /\ [](IsPrefix(SourceBytes(Flatten(delivered)), removeNewLine(stream)))
    /\ [][pc = "handler" =>
             /\ delivered' = delivered
             /\ reads' = reads
             /\ pos' = pos]_vars

\* C5 witness: a third handler call is in progress after two non-empty,
\* different records.
OrderedDeliveryWitness ==
    /\ pc = "handler"
    /\ Len(delivered) = 3
    /\ delivered[1] # << >>
    /\ delivered[2] # << >>
    /\ delivered[1] # delivered[2]

\* C6: normal termination -- with chunkSize > 0 every run returns, and a run
\* in which neither a read nor the handler failed returns nil (end-of-stream
\* is never returned as an error).
NormalTermination ==
    [](chunkSize > 0 => <>(pc = "done" /\ (failure = "nil" => ret = "nil")))

\* C6 witness: a run over several reads and records that returned nil.
NormalTerminationWitness ==
    /\ Succeeded
    /\ failure = "nil"
    /\ reads >= 3
    /\ Len(delivered) >= 2

\* C7: invalid configuration fails fast -- with chunkSize <= 0 the source is
\* never read, not even for zero bytes, and the handler is never called.
InvalidConfigFailsFast ==
    chunkSize <= 0 => reads = 0 /\ delivered = << >>

\* C8: empty-record handling -- for the stream of exactly two delimiter
\* bytes a successful run has called the handler exactly twice, each time
\* with an empty record.
TwoDelimitersTwoEmptyRecords ==
    Succeeded /\ stream = << newLineByte, newLineByte >>
        => delivered = << << >>, << >> >>

\* C9: final partial record -- for a non-empty stream without delimiter byte
\* a successful run has called the handler exactly once, with the entire
\* stream content.
FinalPartialRecord ==
    Succeeded /\ stream # << >> /\ removeNewLine(stream) = stream
        => delivered = << stream >>

\* C10: stream ending on a delimiter -- for a stream whose last byte is the
\* delimiter byte, the last record a successful run delivered is empty.
TrailingDelimiterEmptyLastRecord ==
    Succeeded /\ stream # << >> /\ stream[Len(stream)] = newLineByte
        => delivered # << >> /\ delivered[Len(delivered)] = << >>

\* ------------------------------------------------------------------------
\* C11 .. C20
\* ------------------------------------------------------------------------
HasDelimiter(b) == \E i \in 1..Len(b) : b[i] = newLineByte

FirstDelimiter(b) ==
    CHOOSE i \in 1..Len(b) :
        b[i] = newLineByte /\ \A j \in 1..(i - 1) : b[j] # newLineByte

\* the bytes of b after its first delimiter byte
AfterFirstDelimiter(b) == SubSeq(b, FirstDelimiter(b) + 1, Len(b))

\* t without the delimiter bytes that stand first or right after another
\* delimiter byte, from index i on
RECURSIVE CollapseFrom(_, _)
CollapseFrom(t, i) ==
    IF i > Len(t) THEN << >>
    ELSE (IF t[i] = newLineByte /\ (i = 1 \/ t[i - 1] = newLineByte)
          THEN << >> ELSE << t[i] >>)
         \o CollapseFrom(t, i + 1)

\* delimiteByNewLine has returned for the argument held in tempChunk
Delimited == pc = "delimited"

\* C11: delimiter-free records -- no value passed to the handler contains a
\* delimiter byte.
DeliveredRecordsHaveNoDelimiter ==
    \A k \in 1..Len(delivered) : ~HasDelimiter(delivered[k])

\* C11 witness: a non-empty record was handed to the handler out of a buffer
\* that held a delimiter byte, the remainder holding another one.
DelimiterFreeWitness ==
    /\ pc = "handler"
    /\ delivered[Len(delivered)] # << >>
    /\ HasDelimiter(tempChunk)
    /\ HasDelimiter(leftOver)

\* the length of the longest delimiter-bounded record of the stream
LongestRecord ==
    LET parts == Split(stream)
    IN  CHOOSE n \in 0..Len(stream) :
           /\ \E k \in 1..Len(parts) : Len(parts[k]) = n
           /\ \A k \in 1..Len(parts) : Len(parts[k]) <= n

\* C12: bounded buffering -- with chunkSize > 0 the accumulation buffer and
\* the remainder buffer never hold more than chunkSize plus the length of
\* the longest record of the stream.
BoundedBuffering ==
    chunkSize > 0 =>
        /\ Len(chunkToBeProcessed) <= chunkSize + LongestRecord
        /\ Len(leftOver) <= chunkSize + LongestRecord

NoDelimiterResult ==
    Delimited /\ ~HasDelimiter(tempChunk) =>
        /\ ~enoughDataInChunkToBeProcessed
        /\ chunkToBeProcessed = tempChunk
        /\ leftOver = << >>

\* C14 witness: the call returned for a non-empty input without delimiter.
NoDelimiterWitness ==
    /\ Delimited
    /\ tempChunk = << 97, 98, 97 >>
    /\ chunkToBeProcessed = << 97, 98, 97 >>

\* C17: the delimiter function preserves what it hands back -- for an input
\* with a delimiter byte, record + one delimiter byte + remainder is the
\* input.
DelimiterPreservesInput ==
    Delimited /\ HasDelimiter(tempChunk) =>
        chunkToBeProcessed \o << newLineByte >> \o leftOver = tempChunk

\* C15: the remainder holds at most a partial record -- leftOver never
\* contains a delimiter byte.
LeftOverHasNoDelimiter == ~HasDelimiter(leftOver)

\* C15 as amended: leftOver may hold complete records, each closed by one
\* delimiter byte, before a partial one, but never an empty record -- it
\* never begins with a delimiter byte and never holds two delimiter bytes in
\* a row.
LeftOverHasNoEmptyRecord ==
    \A i \in 1..Len(leftOver) :
        leftOver[i] = newLineByte => i > 1 /\ leftOver[i - 1] # newLineByte

\* C15 witness: the delimiter function was applied to a buffer with an empty
\* segment and left a complete record in leftOver.
LeftOverWitness ==
    /\ pc = "handle"
    /\ tempChunk = << newLineByte, 97, newLineByte >>
    /\ leftOver = << 97, newLineByte >>

\* C16: reads append exactly what was read -- the bytes of the read buffer
\* beyond the bytes a read returned are never appended to the accumulation
\* buffer and never reach the remainder or the handler: these hold bytes of
\* the stream only.
ReadsAppendOnlyReadBytes ==
    /\ SourceBytes(chunkToBeProcessed) = chunkToBeProcessed
    /\ SourceBytes(leftOver) = leftOver
    /\ SourceBytes(Flatten(delivered)) = Flatten(delivered)

\* a read has signalled end-of-stream and the driver went on from it
AfterEndOfStream == eof /\ pc \in {"handle", "handler", "after", "done"}

\* C18: final flush at end-of-stream -- once a read has signalled
\* end-of-stream the remainder buffer is empty, and with the handler call
\* that follows every byte that was read has been delivered.
FinalFlushDeliversAllRead ==
    AfterEndOfStream =>
        /\ leftOver = << >>
        /\ (pc # "handle" =>
               SourceBytes(Flatten(delivered)) = removeNewLine(SubSeq(stream, 1, pos)))

\* C19: remainder before reads -- while leftOver holds bytes no read of the
\* source happens, and the step taken at the head of the inner loop moves
\* the whole of leftOver into tempChunk and empties leftOver.
RemainderBeforeReads ==
    [][leftOver # << >> =>
          /\ reads' = reads
          /\ pos' = pos
          /\ (pc = "inner" => tempChunk' = leftOver /\ leftOver' = << >>)]_vars

\* C19 witness: two records that came with one read have been delivered
\* after that single read.
RemainderBeforeReadsWitness ==
    /\ pc = "handler"
    /\ reads = 1
    /\ Len(delivered) = 2
    /\ delivered[2] # << >>

\* C20: empty stream -- when the very first read signals end-of-stream on an
\* empty source, chunkSize > 0, and the handler does not fail, the run has
\* called the handler exactly once, with an empty record, and returned nil;
\* and every run that returned nil has called the handler at least once.
EmptyStreamOneEmptyRecord ==
    /\ (pc = "done" /\ chunkSize > 0 /\ stream = << >> /\ reads = 1 /\ eof
           /\ failure = "nil"
        => delivered = << << >> >> /\ ret = "nil")
    /\ (pc = "done" /\ ret = "nil" => Len(delivered) >= 1)

\* C20 witness: a run over the empty source whose first read signalled
\* end-of-stream has returned.
EmptyStreamWitness ==
    /\ pc = "done"
    /\ chunkSize > 0
    /\ stream = << >>
    /\ reads = 1
    /\ eof
    /\ ret = "nil"
====
